---- MODULE Spec2Model ----
(***************************************************************************)
(* Model of the peer session protocol of rust-P2P-chat-cli:                *)
(* peer-core/src/net.rs (framing, handshake, chat loop) over               *)
(* peer-common (crypto primitives, Session, WireMessage).                  *)
(*                                                                         *)
(* Data is modelled at byte level: a stream direction is a sequence of     *)
(* bytes, a frame is a 4-byte big-endian length followed by the JSON text  *)
(* of one WireMessage, binary fields travel as standard base64.            *)
(* The cryptographic primitives are replaced by small algebraic stand-ins  *)
(* with the same interface and sizes (32-byte keys, 24-byte nonces,        *)
(* 16-byte tags): Diffie-Hellman in the multiplicative group mod DhPrime,  *)
(* a byte mixing function for SHA-256, an additive stream cipher with a    *)
(* keyed checksum tag for XChaCha20-Poly1305.                              *)
(***************************************************************************)
EXTENDS Integers, Sequences, FiniteSets, TLC

(***************************************************************************)
(* Bytes and text                                                          *)
(***************************************************************************)
Byte == 0..255

AsciiPrintable ==
    << " ", "!", "\"", "#", "$", "%", "&", "'", "(", ")", "*", "+", ",", "-", ".", "/",
       "0", "1", "2", "3", "4", "5", "6", "7", "8", "9", ":", ";", "<", "=", ">", "?",
       "@", "A", "B", "C", "D", "E", "F", "G", "H", "I", "J", "K", "L", "M", "N", "O",
       "P", "Q", "R", "S", "T", "U", "V", "W", "X", "Y", "Z", "[", "\\", "]", "^", "_",
       "'", "a", "b", "c", "d", "e", "f", "g", "h", "i", "j", "k", "l", "m", "n", "o",
       "p", "q", "r", "s", "t", "u", "v", "w", "x", "y", "z", "{", "|", "}", "~" >>

\* The UTF-8 code of a printable ASCII character (the table holds a second
\* apostrophe in the place of the grave accent, which no text here uses).
Code(c) == 31 + (CHOOSE i \in 1..Len(AsciiPrintable) : AsciiPrintable[i] = c)

\* str.as_bytes() of a text given as a sequence of one-character strings.
Utf8(s) == [i \in 1..Len(s) |-> Code(s[i])]

NewLine == 10
Quote == 34
BackSlash == 92


\* Vec<u8> / &[u8] / String contents
Bytes == Seq(Byte)

Drop(s, n) == SubSeq(s, n + 1, Len(s))
Take(s, n) == SubSeq(s, 1, n)
HasPrefix(s, p) == Len(s) >= Len(p) /\ Take(s, Len(p)) = p

Range(s) == {s[i] : i \in 1..Len(s)}

\* byte sum of the first n bytes, reduced so that it stays within machine
\* integers
SumUpTo[s \in Bytes, n \in Nat] ==
    IF n = 0 THEN 0 ELSE (s[n] + SumUpTo[s, n - 1]) % 65536

SumSeq[s \in Bytes] == SumUpTo[s, Len(s)]

\* position-weighted byte sum, reduced likewise
WeightedUpTo[s \in Bytes, n \in Nat] ==
    IF n = 0 THEN 0 ELSE (n * s[n] + WeightedUpTo[s, n - 1]) % 65536

WeightedSum[s \in Bytes] == WeightedUpTo[s, Len(s)]

(***************************************************************************)
(* base64::engine::general_purpose::STANDARD                               *)
(***************************************************************************)
PadChar == 61

B64Char[v \in 0..63] ==
    IF v < 26 THEN 65 + v
    ELSE IF v < 52 THEN 97 + (v - 26)
    ELSE IF v < 62 THEN 48 + (v - 52)
    ELSE IF v = 62 THEN 43 ELSE 47

\* value of a base64 alphabet character, -1 for any other byte
B64Val[c \in Byte] ==
    IF c >= 65 /\ c <= 90 THEN c - 65
    ELSE IF c >= 97 /\ c <= 122 THEN c - 97 + 26
    ELSE IF c >= 48 /\ c <= 57 THEN c - 48 + 52
    ELSE IF c = 43 THEN 62
    ELSE IF c = 47 THEN 63 ELSE -1

\* byte i of b, 0 beyond its end
ByteAt(b, i) == IF i <= Len(b) THEN b[i] ELSE 0

\* STANDARD.encode(b): every 3 bytes give 4 characters, the last group is
\* padded with '='
B64Encode[b \in Bytes] ==
    [k \in 1..(4 * ((Len(b) + 2) \div 3)) |->
        IF (k - 1) % 4 = 0 THEN
            B64Char[ByteAt(b, 3 * ((k - 1) \div 4) + 1) \div 4]
        ELSE IF (k - 1) % 4 = 1 THEN
            B64Char[(ByteAt(b, 3 * ((k - 1) \div 4) + 1) % 4) * 16
                    + ByteAt(b, 3 * ((k - 1) \div 4) + 2) \div 16]
        ELSE IF (k - 1) % 4 = 2 THEN
            IF 3 * ((k - 1) \div 4) + 2 > Len(b) THEN PadChar
            ELSE B64Char[(ByteAt(b, 3 * ((k - 1) \div 4) + 2) % 16) * 4
                         + ByteAt(b, 3 * ((k - 1) \div 4) + 3) \div 64]
        ELSE IF 3 * ((k - 1) \div 4) + 3 > Len(b) THEN PadChar
        ELSE B64Char[ByteAt(b, 3 * ((k - 1) \div 4) + 3) % 64]]

\* Result values: Ok(v) and Err(kind)
Ok(v) == [ok |-> TRUE, val |-> v]
Err(kind) == [ok |-> FALSE, val |-> kind]

\* number of '=' that end the text t (at most 2 count as padding)
PadCount[t \in Bytes] ==
    IF Len(t) >= 2 /\ t[Len(t)] = PadChar /\ t[Len(t) - 1] = PadChar THEN 2
    ELSE IF Len(t) >= 1 /\ t[Len(t)] = PadChar THEN 1 ELSE 0

\* value of character i of t when it is one of the first n, 0 otherwise
SextetAt(t, n, i) == IF i <= n THEN B64Val[t[i]] ELSE 0

\* the bytes of a text t whose first n characters are of the alphabet and
\* whose last pad characters are padding
B64Bytes[t \in Bytes, n \in Nat, pad \in 0..2] ==
    [k \in 1..(3 * (Len(t) \div 4) - pad) |->
        IF (k - 1) % 3 = 0 THEN
            SextetAt(t, n, 4 * ((k - 1) \div 3) + 1) * 4
            + SextetAt(t, n, 4 * ((k - 1) \div 3) + 2) \div 16
        ELSE IF (k - 1) % 3 = 1 THEN
            (SextetAt(t, n, 4 * ((k - 1) \div 3) + 2) % 16) * 16
            + SextetAt(t, n, 4 * ((k - 1) \div 3) + 3) \div 4
        ELSE (SextetAt(t, n, 4 * ((k - 1) \div 3) + 3) % 4) * 64
             + SextetAt(t, n, 4 * ((k - 1) \div 3) + 4)]

\* the check of a text with n alphabet positions and pad padding characters
B64Checked[t \in Bytes, n \in Nat, pad \in 0..2] ==
    IF Len(t) % 4 # 0 THEN Err("base64")
    ELSE IF \E i \in 1..n : B64Val[t[i]] < 0 THEN Err("base64")
    ELSE IF pad = 2 /\ B64Val[t[n]] % 16 # 0 THEN Err("base64")
    ELSE IF pad = 1 /\ B64Val[t[n]] % 4 # 0 THEN Err("base64")
    ELSE Ok(B64Bytes[t, n, pad])

\* STANDARD.decode(t): the length is a multiple of 4 (canonical padding),
\* every character before the padding is of the alphabet, and the bits of
\* the last character that belong to no byte are zero
B64Decode[t \in Bytes] == B64Checked[t, Len(t) - PadCount[t], PadCount[t]]

(***************************************************************************)
(* serde_json encoding of WireMessage (externally tagged enum)             *)
(***************************************************************************)
LBrace == 123
RBrace == 125
Colon == 58
Comma == 44

NameHandshake == Utf8(<< "H", "a", "n", "d", "s", "h", "a", "k", "e" >>)
NameChat == Utf8(<< "C", "h", "a", "t" >>)
NameAck == Utf8(<< "A", "c", "k" >>)
NamePing == Utf8(<< "P", "i", "n", "g" >>)
NamePubkey == Utf8(<< "p", "u", "b", "k", "e", "y" >>)
NameSenderId == Utf8(<< "s", "e", "n", "d", "e", "r", "_", "i", "d" >>)
NameTimestamp == Utf8(<< "t", "i", "m", "e", "s", "t", "a", "m", "p" >>)
NamePayload == Utf8(<< "p", "a", "y", "l", "o", "a", "d" >>)
NameNonce == Utf8(<< "n", "o", "n", "c", "e" >>)
NameId == Utf8(<< "i", "d" >>)

\* The four variants of WireMessage; text fields are byte sequences.
Handshake(pubkey) == [tag |-> "Handshake", pubkey |-> pubkey]
Chat(sender_id, timestamp, payload, nonce) ==
    [tag |-> "Chat", sender_id |-> sender_id, timestamp |-> timestamp,
     payload |-> payload, nonce |-> nonce]
Ack(id) == [tag |-> "Ack", id |-> id]
Ping == [tag |-> "Ping"]

\* enum WireMessage
WireMessage ==
    [tag : {"Handshake"}, pubkey : Bytes]
    \cup [tag : {"Chat"}, sender_id : Bytes, timestamp : Nat, payload : Bytes,
          nonce : Bytes]
    \cup [tag : {"Ack"}, id : Bytes]
    \cup {Ping}

NeedsEscape(c) == c = Quote \/ c = BackSlash \/ c = NewLine

\* the escaped text of the characters of s from index i on
JsonEscapeFrom[s \in Bytes, i \in Nat] ==
    IF i > Len(s) THEN << >>
    ELSE (IF s[i] = Quote \/ s[i] = BackSlash THEN << BackSlash, s[i] >>
          ELSE IF s[i] = NewLine THEN << BackSlash, Code("n") >>
          ELSE << s[i] >>) \o JsonEscapeFrom[s, i + 1]

\* string escaping of the serializer, for the characters texts here contain
JsonEscape[s \in Bytes] ==
    IF \A i \in 1..Len(s) : ~NeedsEscape(s[i]) THEN s ELSE JsonEscapeFrom[s, 1]

JsonString[s \in Bytes] == << Quote >> \o JsonEscape[s] \o << Quote >>

\* decimal text of an unsigned integer
Dec[n \in Nat] == IF n < 10 THEN << 48 + n >> ELSE Dec[n \div 10] \o << 48 + (n % 10) >>

JsonField(name, value) == JsonString[name] \o << Colon >> \o value

\* {"<variant>":{<fields>}}
JsonVariant(name, fields) ==
    << LBrace >> \o JsonString[name] \o << Colon, LBrace >> \o fields \o << RBrace, RBrace >>

\* serde_json::to_vec(wm)
Serialize[wm \in WireMessage] ==
    IF wm.tag = "Handshake" THEN
        JsonVariant(NameHandshake, JsonField(NamePubkey, JsonString[wm.pubkey]))
    ELSE IF wm.tag = "Chat" THEN
        JsonVariant(NameChat,
            JsonField(NameSenderId, JsonString[wm.sender_id]) \o << Comma >>
            \o JsonField(NameTimestamp, Dec[wm.timestamp]) \o << Comma >>
            \o JsonField(NamePayload, JsonString[wm.payload]) \o << Comma >>
            \o JsonField(NameNonce, JsonString[wm.nonce]))
    ELSE IF wm.tag = "Ack" THEN
        JsonVariant(NameAck, JsonField(NameId, JsonString[wm.id]))
    ELSE JsonString[NamePing]

\* Parse results carry the parsed value and the unread rest of the text; a
\* failed parse leaves nothing to read.
Parsed(v, rest) == [ok |-> TRUE, val |-> v, rest |-> rest]
NoParse == [ok |-> FALSE, val |-> << >>, rest |-> << >>]

\* index of the quote that closes the string whose characters start at i,
\* 0 if there is none
StringEnd[t \in Bytes, i \in Nat] ==
    IF i > Len(t) THEN 0
    ELSE IF t[i] = Quote THEN i
    ELSE IF t[i] = BackSlash THEN StringEnd[t, i + 2]
    ELSE StringEnd[t, i + 1]

\* every escape from index i on is one of \" \\ \n
EscapesOk[raw \in Bytes, i \in Nat] ==
    IF i > Len(raw) THEN TRUE
    ELSE IF raw[i] # BackSlash THEN EscapesOk[raw, i + 1]
    ELSE /\ i < Len(raw)
         /\ raw[i + 1] \in {Quote, BackSlash, Code("n")}
         /\ EscapesOk[raw, i + 2]

\* the text of the raw string characters from index i on
Unescape[raw \in Bytes, i \in Nat] ==
    IF i > Len(raw) THEN << >>
    ELSE IF raw[i] # BackSlash THEN << raw[i] >> \o Unescape[raw, i + 1]
    ELSE << IF raw[i + 1] = Code("n") THEN NewLine ELSE raw[i + 1] >>
         \o Unescape[raw, i + 2]

\* the text of the characters between the quotes: control characters and
\* bytes that are not ASCII are not accepted
RawString[raw \in Bytes] ==
    IF \E i \in 1..Len(raw) : raw[i] < 32 \/ raw[i] > 127 THEN Err("json")
    ELSE IF \A i \in 1..Len(raw) : raw[i] # BackSlash THEN Ok(raw)
    ELSE IF EscapesOk[raw, 1] THEN Ok(Unescape[raw, 1])
    ELSE Err("json")

\* the string of t that opens at index 1 and closes at index end
StringTo[t \in Bytes, end \in Nat] ==
    IF end = 0 THEN NoParse
    ELSE LET u == RawString[SubSeq(t, 2, end - 1)]
         IN  IF u.ok THEN Parsed(u.val, Drop(t, end)) ELSE NoParse

\* a JSON string at the head of t
ParseString[t \in Bytes] ==
    IF t = << >> \/ Head(t) # Quote THEN NoParse ELSE StringTo[t, StringEnd[t, 2]]

IsDigit(c) == c >= 48 /\ c <= 57

\* the number whose digits before index i have the value acc; digits are read
\* while the value stays below 2^31
ParseDigits[t \in Bytes, i \in Nat, acc \in Nat] ==
    IF i <= Len(t) /\ IsDigit(t[i]) /\ acc <= 214748363
    THEN ParseDigits[t, i + 1, acc * 10 + (t[i] - 48)]
    ELSE Parsed(acc, Drop(t, i - 1))

\* an unsigned JSON number: digits, no leading zero except for 0 itself
ParseNumber[t \in Bytes] ==
    IF t = << >> \/ ~IsDigit(Head(t)) THEN NoParse
    ELSE IF Head(t) = 48 /\ Len(t) > 1 /\ IsDigit(t[2]) THEN NoParse
    ELSE ParseDigits[t, 1, 0]

\* expects the literal text lit at the head of t
ParseLit[t \in Bytes, lit \in Bytes] ==
    IF HasPrefix(t, lit) THEN Parsed(lit, Drop(t, Len(lit))) ELSE NoParse

\* expects "name": at the head of t and parses a string value after it
ParseStringField[t \in Bytes, name \in Bytes] ==
    ParseString[ParseLit[t, JsonString[name] \o << Colon >>].rest]

ParseNumberField[t \in Bytes, name \in Bytes] ==
    ParseNumber[ParseLit[t, JsonString[name] \o << Colon >>].rest]

\* the text after a comma at the head of t
AfterComma[t \in Bytes] == ParseLit[t, << Comma >>].rest

VariantOpen(name) == << LBrace >> \o JsonString[name] \o << Colon, LBrace >>
VariantClose == << RBrace, RBrace >>

\* serde_json::from_slice::<WireMessage>(buf), for texts in the form the
\* serializer writes (no insignificant whitespace, fields in declaration order)
Deserialize[buf \in Bytes] ==
    IF buf = JsonString[NamePing] THEN Ok(Ping)
    ELSE IF HasPrefix(buf, VariantOpen(NameHandshake)) THEN
        LET p == ParseStringField[Drop(buf, Len(VariantOpen(NameHandshake))), NamePubkey]
        IN  IF p.ok /\ p.rest = VariantClose THEN Ok(Handshake(p.val)) ELSE Err("json")
    ELSE IF HasPrefix(buf, VariantOpen(NameAck)) THEN
        LET p == ParseStringField[Drop(buf, Len(VariantOpen(NameAck))), NameId]
        IN  IF p.ok /\ p.rest = VariantClose THEN Ok(Ack(p.val)) ELSE Err("json")
    ELSE IF HasPrefix(buf, VariantOpen(NameChat)) THEN
        LET s == ParseStringField[Drop(buf, Len(VariantOpen(NameChat))), NameSenderId]
            t == ParseNumberField[AfterComma[s.rest], NameTimestamp]
            p == ParseStringField[AfterComma[t.rest], NamePayload]
            n == ParseStringField[AfterComma[p.rest], NameNonce]
        IN  IF n.ok /\ n.rest = VariantClose
            THEN Ok(Chat(s.val, t.val, p.val, n.val)) ELSE Err("json")
    ELSE Err("json")

(***************************************************************************)
(* Framing: u32 big-endian length, then the serialized message             *)
(***************************************************************************)
LenPrefix == 4

\* (n as u32).to_be_bytes()
U32ToBe[n \in Nat] ==
    << (n \div 16777216) % 256, (n \div 65536) % 256, (n \div 256) % 256, n % 256 >>

\* u32::from_be_bytes(b), for lengths below 2^31
U32FromBe[b \in Bytes] == b[1] * 16777216 + b[2] * 65536 + b[3] * 256 + b[4]

\* the bytes write_msg / write_msg_raw put on the stream for one message
FrameBytes[wm \in WireMessage] == U32ToBe[Len(Serialize[wm])] \o Serialize[wm]

(***************************************************************************)
(* Cryptographic primitives (peer-common/src/crypto.rs)                    *)
(***************************************************************************)
KeyLen == 32
NonceLen == 24
TagLen == 16

\* Stand-in for Curve25519: the multiplicative group modulo DhPrime.
DhPrime == 23
DhBase == 5

ModExp[b \in Nat, e \in Nat] == IF e = 0 THEN 1 ELSE (b * ModExp[b, e - 1]) % DhPrime

\* little-endian 32-byte representation of a group element
LeBytes[v \in Nat] == [i \in 1..KeyLen |-> IF i = 1 THEN v % 256 ELSE 0]

LeValueFrom[b \in Bytes, i \in Nat] ==
    IF i > Len(b) THEN 0 ELSE (b[i] + 256 * LeValueFrom[b, i + 1]) % DhPrime

\* the group element a 32-byte array stands for (PublicKey::from accepts
\* every array)
LeValue[b \in Bytes] == LeValueFrom[b, 1]

\* PublicKey::from(&secret)
PublicKeyOf[secret \in Nat] == LeBytes[ModExp[DhBase, secret]]

\* secret.diffie_hellman(peer_pub).as_bytes()
diffie_hellman[secret \in Nat, peer_pub \in Bytes] ==
    LeBytes[ModExp[LeValue[peer_pub], secret]]

\* the digest of inputs whose weighted sum is w
DigestOf[w \in Nat] == [i \in 1..KeyLen |-> (13 * w + 7 * i + 1) % 256]

\* Stand-in for Sha256::digest: 32 bytes mixed from all input bytes.
Sha256[b \in Bytes] == DigestOf[WeightedSum[b]]

derive_shared_key_ignores_peer(secret, peer_pub) ==
    Sha256[diffie_hellman[secret, PublicKeyOf[secret]]]

derive_shared_key(secret, peer_pub) == Sha256[diffie_hellman[secret, peer_pub]]

pubkey_to_b64[pubkey \in Bytes] == B64Encode[pubkey]

KeyOfLengthFitted(bytes) ==
    IF ~bytes.ok THEN bytes
    ELSE Ok([i \in 1..KeyLen |-> IF i <= Len(bytes.val) THEN bytes.val[i] ELSE 0])

\* the length check of pubkey_from_b64, on the result of the decoding
KeyOfLength(bytes) ==
    IF ~bytes.ok THEN bytes
    ELSE IF Len(bytes.val) # KeyLen THEN Err("Invalid public key length")
    ELSE bytes

\* Ok(32 bytes) or Err: base64 error, or "Invalid public key length"
pubkey_from_b64[b64 \in Bytes] == KeyOfLength(B64Decode[b64])

\* Stand-in for the XChaCha20 key stream.
KeyStream(key, nonce, i) ==
    (key[((i - 1) % KeyLen) + 1] + nonce[((i - 1) % NonceLen) + 1] + i) % 256

\* the tag for a mixed sum m
TagOf[m \in Nat] == [i \in 1..TagLen |-> (m + 11 * i) % 256]

\* Stand-in for the Poly1305 tag over the ciphertext body.
AeadTag[key \in Bytes, nonce \in Bytes, body \in Bytes] ==
    TagOf[SumSeq[key] + 3 * SumSeq[nonce] + 5 * WeightedSum[body]]

\* the ciphertext body: the plaintext under the key stream
AeadBody[key \in Bytes, nonce \in Bytes, plaintext \in Bytes] ==
    [i \in 1..Len(plaintext) |-> (plaintext[i] + KeyStream(key, nonce, i)) % 256]

\* cipher.encrypt(nonce, plaintext): ciphertext body followed by the tag
AeadEncrypt[key \in Bytes, nonce \in Bytes, plaintext \in Bytes] ==
    AeadBody[key, nonce, plaintext] \o AeadTag[key, nonce, AeadBody[key, nonce, plaintext]]

\* cipher.decrypt(nonce, ciphertext): Ok(plaintext) or Err when the tag does
\* not verify
AeadDecrypt[key \in Bytes, nonce \in Bytes, ciphertext \in Bytes] ==
    IF Len(ciphertext) < TagLen THEN Err("aead")
    ELSE IF Drop(ciphertext, Len(ciphertext) - TagLen)
            # AeadTag[key, nonce, Take(ciphertext, Len(ciphertext) - TagLen)]
    THEN Err("aead")
    ELSE Ok([i \in 1..(Len(ciphertext) - TagLen) |->
                (ciphertext[i] + 256 - KeyStream(key, nonce, i)) % 256])

\* A call that can panic yields Returned(v) or Panic(message).
Panic(msg) == [ok |-> FALSE, val |-> msg, panic |-> TRUE]
Returned(v) == [ok |-> TRUE, val |-> v, panic |-> FALSE]

\* encrypt_message(key, plaintext); the nonce rng.fill produced is a parameter
encrypt_message[key \in Bytes, plaintext \in Bytes, nonce_bytes \in Bytes] ==
    [ct |-> AeadEncrypt[key, nonce_bytes, plaintext], nonce |-> nonce_bytes]

\* the .expect("decryption failure!") of decrypt_message
Expect(r, msg) == IF r.ok THEN Returned(r.val) ELSE Panic(msg)

\* decrypt_message(key, ciphertext, nonce_bytes)
decrypt_message[key \in Bytes, ciphertext \in Bytes, nonce_bytes \in Bytes] ==
    Expect(AeadDecrypt[key, nonce_bytes, ciphertext], "decryption failure!")

(***************************************************************************)
(* Session (peer-common/src/lib.rs)                                        *)
(***************************************************************************)
CipherType == {"AES256GCM", "XChaCha20Poly1305"}

\* the value of a Session that is not constructed yet
NoSession == [key |-> << >>, cipher |-> "none"]

\* struct Session
Session == [key : Bytes, cipher : CipherType] \cup {NoSession}

SessionNewAes(key) == [key |-> key, cipher |-> "AES256GCM"]

\* Session::new(key)
SessionNew(key) == [key |-> key, cipher |-> "XChaCha20Poly1305"]

\* Session::encrypt(&self, plaintext)
SessionEncrypt[session \in Session, plaintext \in Bytes, nonce_bytes \in Bytes] ==
    IF session.cipher = "AES256GCM" THEN Panic("AES256GCM not yet implemented")
    ELSE Returned(encrypt_message[session.key, plaintext, nonce_bytes])

\* Session::decrypt(&self, ciphertext, nonce): &nonce[..24] panics on a
\* shorter slice and drops the bytes after the 24th of a longer one
SessionDecrypt[session \in Session, ciphertext \in Bytes, nonce \in Bytes] ==
    IF session.cipher = "AES256GCM" THEN Panic("AES256GCM not yet implemented")
    ELSE IF Len(nonce) < NonceLen THEN Panic("range end index 24 out of range")
    ELSE decrypt_message[session.key, ciphertext, Take(nonce, NonceLen)]

\* String::from_utf8_lossy(bytes): ASCII is kept, every other byte is
\* replaced by U+FFFD (written as the code point 65533)
from_utf8_lossy[bytes \in Bytes] ==
    [i \in 1..Len(bytes) |-> IF bytes[i] < 128 THEN bytes[i] ELSE 65533]

(***************************************************************************)
(* Reading one frame from a stream (peer-core/src/net.rs)                  *)
(***************************************************************************)
\* The declared length exceeds the n bytes at hand (streams here hold far
\* fewer than 2^24 bytes).
DeclaredBeyond(lenb, n) == lenb[1] # 0 \/ U32FromBe[lenb] > n

\* the frame of len payload bytes at the head of buf
FrameOfLen[buf \in Bytes, len \in Nat] ==
    [res |-> "Data", payload |-> SubSeq(buf, LenPrefix + 1, LenPrefix + len),
     used |-> LenPrefix + len]

\* The two read_exact calls that open read_msg and read_msg_from_reader, on
\* a stream that holds the bytes buf, has seen the peer's FIN iff eof, and is
\* broken iff broken.  "Blocked": the call is still waiting for bytes.
\* "EofLen": the stream ended during the 4 length bytes.  "EofBody": it ended
\* during the payload.  "Io": another I/O error.  "Data": payload read.
ReadFrame[buf \in Bytes, eof \in BOOLEAN, broken \in BOOLEAN] ==
    IF broken THEN [res |-> "Io", payload |-> << >>, used |-> 0]
    ELSE IF Len(buf) < LenPrefix THEN
        IF eof THEN [res |-> "EofLen", payload |-> << >>, used |-> Len(buf)]
        ELSE [res |-> "Blocked", payload |-> << >>, used |-> 0]
    ELSE IF DeclaredBeyond(Take(buf, LenPrefix), Len(buf) - LenPrefix) THEN
        IF eof THEN [res |-> "EofBody", payload |-> << >>, used |-> Len(buf)]
        ELSE [res |-> "Blocked", payload |-> << >>, used |-> 0]
    ELSE FrameOfLen[buf, U32FromBe[Take(buf, LenPrefix)]]

\* the outcome of read_msg for a payload that deserializes to wm
MsgRead(wm) ==
    IF wm.ok THEN [res |-> "Ok", msg |-> wm.val] ELSE [res |-> "Err", msg |-> Ping]

\* read_msg(stream): Ok(WireMessage) or Err; every read_exact failure is an
\* error here
read_msg[buf \in Bytes, eof \in BOOLEAN, broken \in BOOLEAN] ==
    LET f == ReadFrame[buf, eof, broken]
    IN  IF f.res = "Blocked" THEN [res |-> "Blocked", msg |-> Ping]
        ELSE IF f.res # "Data" THEN [res |-> "Err", msg |-> Ping]
        ELSE MsgRead(Deserialize[f.payload])

\* the outcome for a Chat message whose fields decode to data and nonce_bytes
OnChat[session \in Session, data \in Bytes, nonce_bytes \in Bytes] ==
    LET pt == SessionDecrypt[session, data, nonce_bytes]
    IN  IF pt.ok
        THEN [res |-> "OkSome", text |-> from_utf8_lossy[pt.val], why |-> "Chat"]
        ELSE [res |-> "Panic", text |-> << >>, why |-> pt.val]

\* What read_msg_from_reader does with a decoded message.  The field why
\* records the reason of the outcome (the variant, the error or the panic
\* message); the program itself only sees res and text.
OnWireMessage[wm \in WireMessage, session \in Session] ==
    IF wm.tag = "Chat" THEN
        IF ~B64Decode[wm.payload].ok \/ ~B64Decode[wm.nonce].ok
        THEN [res |-> "Err", text |-> << >>, why |-> "base64"]
        ELSE OnChat[session, B64Decode[wm.payload].val, B64Decode[wm.nonce].val]
    ELSE [res |-> "OkNone", text |-> << >>, why |-> wm.tag]

\* the outcome of read_msg_from_reader for a payload
OnPayload[payload \in Bytes, session \in Session] ==
    LET wm == Deserialize[payload]
    IN  IF ~wm.ok THEN [res |-> "Err", text |-> << >>, why |-> "json"]
        ELSE OnWireMessage[wm.val, session]

\* read_msg_from_reader(reader, session): Ok(Some(text)), Ok(None), Err, or
\* a panic inside Session::decrypt
read_msg_from_reader[buf \in Bytes, eof \in BOOLEAN, broken \in BOOLEAN, session \in Session] ==
    LET f == ReadFrame[buf, eof, broken]
    IN  IF f.res = "Blocked"
        THEN [res |-> "Blocked", text |-> << >>, why |-> "Blocked"]
        ELSE IF f.res = "EofLen"
        THEN [res |-> "OkNone", text |-> << >>,
              why |-> IF f.used = 0 THEN "Eof" ELSE "EofLen"]
        ELSE IF f.res # "Data"
        THEN [res |-> "Err", text |-> << >>, why |-> f.res]
        ELSE OnPayload[f.payload, session]
(***************************************************************************)
(* The connection: two ends of one TCP stream                              *)
(***************************************************************************)
\* "I" runs start_client -> handle_conn(stream, false) and is the whole
\* process; "R" runs handle_conn(socket, true) in a task spawned by
\* start_listener.  An end is either this program or a foreign program that
\* writes frames of its own choosing.
Ends == {"I", "R"}
Other(e) == IF e = "I" THEN "R" ELSE "I"
is_listener(e) == e = "R"

\* Bounds of the model
MaxSecret == 2
MaxNonce == 1
MaxInputs == 2

Secrets == 1..MaxSecret
\* the 24 bytes rng.fill produces, one array per seed
NonceOf(v) == [i \in 1..NonceLen |-> (v + i) % 256]
Nonces == {NonceOf(v) : v \in 1..MaxNonce}
\* SystemTime::now() in seconds since the epoch
Timestamps == {1700000000}

\* Lines of local input, as read_line returns them
TextHi == Utf8(<< "h", "i" >>)
TextYo == Utf8(<< "y", "o" >>)
TextQuit == Utf8(<< "/", "q", "u", "i", "t" >>)
TextMe == Utf8(<< "m", "e" >>)
StdinLines ==
    { TextHi \o << NewLine >>, TextYo \o << 32, NewLine >>, << NewLine >>,
      TextQuit \o << NewLine >> }
\* read_line returns 0 bytes at the end of input
StdinEof == << >>

IsWhitespace(c) == c \in {9, 10, 11, 12, 13, 32}

\* a trim that removes one trailing whitespace character only
trim_end_once(s) ==
    IF s # << >> /\ IsWhitespace(s[Len(s)]) THEN Take(s, Len(s) - 1) ELSE s

\* str::trim_end
RECURSIVE trim_end(_)
trim_end(s) ==
    IF s # << >> /\ IsWhitespace(s[Len(s)]) THEN trim_end(Take(s, Len(s) - 1)) ELSE s

VARIABLES
    kind,        \* kind[e]: "prog" (this program) or "foreign"
    pc,          \* pc[e]: where the task running handle_conn stands
    result,      \* result[e]: "none", or what handle_conn returned: "Ok" / "Err"
    rx,          \* rx[e]: state of the reader task spawned by chat_loop
    rxWhy,       \* rxWhy[e]: why of the last read_msg_from_reader outcome
    secret,      \* secret[e]: the ephemeral secret (0: not generated)
    peer_pub,    \* peer_pub[e]: the decoded public key of the peer
    session,     \* session[e]: the Session handed to chat_loop
    wire,        \* wire[e]: bytes written by e that Other(e) has not read
    wopen,       \* wopen[e]: e has not closed its sending direction
    reset,       \* the connection is broken (reset by the network)
    sent,        \* sent[e]: plaintexts the Sender of e has transmitted
    delivered,   \* delivered[e]: plaintexts the Receiver of e has printed
    log,         \* log[e]: diagnostics e has printed
    hsTrace,     \* hsTrace[e]: stream operations of e during the handshake:
                 \* "write" / "write_err" for write_msg, and for read_msg the
                 \* variant it returned or "Err"
    senderEnd,   \* senderEnd[e]: how the stdin loop of e ended: "none",
                 \* "quit", "eof" or "error"
    inputsLeft   \* inputs still to come: lines of local input (both ends
                 \* together) and frames a foreign peer writes after its
                 \* Handshake

connVars == << kind, pc, result, rx, rxWhy, secret, peer_pub, session, wire, wopen,
               reset, sent, delivered, log, hsTrace, senderEnd, inputsLeft >>

\* State of the parts of the program that are examined on their own: the
\* framing, the Session type, the peer store and the accept loop.
VARIABLES
    written,     \* the messages written to a stream, in order
    readBack,    \* the results of read_msg on that stream, in order
    sut,         \* a Session value
    out,         \* the last call on that Session and its outcome
    peers,       \* Persist.peers
    latest,      \* latest[name]: the address of the last add_peer for name
    got,         \* the last get_peer call and its result
    listening,   \* where start_listener stands
    conn,        \* conn[c]: the task spawned for accepted connection c
    stdin        \* the lines of local input not yet read by any stdin loop

frameVars == << written, readBack >>
sessionVars == << sut, out >>
persistVars == << peers, latest, got >>
listenerVars == << listening, conn, stdin >>
libVars == << frameVars, sessionVars, persistVars, listenerVars >>

vars == << connVars, libVars >>

FirstStepAlwaysWrites(listener) == "hs_send"

FirstStepAlwaysReads(listener) == IF listener THEN "hs_read" ELSE "hs_await"

\* handle_conn starts by reading when it is the listener, by writing otherwise
FirstStep(listener) == IF listener THEN "hs_read" ELSE "hs_send"

\* Values of the variables of a part that is not examined.
FrameIdle == written = << >> /\ readBack = << >>
SessionIdle == sut = NoSession /\ out = [call |-> "none"]
PersistIdle == peers = << >> /\ latest = << >> /\ got = [call |-> "none"]
ListenerIdle == listening = "off" /\ conn = << >> /\ stdin = << >>

\* The connection before handle_conn runs on the ends that are this program.
ConnStart ==
    /\ pc = [e \in Ends |-> IF kind[e] = "prog" THEN FirstStep(is_listener(e)) ELSE "foreign"]
    /\ result = [e \in Ends |-> "none"]
    /\ rx = [e \in Ends |-> "none"]
    /\ rxWhy = [e \in Ends |-> "none"]
    /\ secret = [e \in Ends |-> 0]
    /\ peer_pub = [e \in Ends |-> << >>]
    /\ session = [e \in Ends |-> NoSession]
    /\ wire = [e \in Ends |-> << >>]
    /\ wopen = [e \in Ends |-> TRUE]
    /\ reset = FALSE
    /\ sent = [e \in Ends |-> << >>]
    /\ delivered = [e \in Ends |-> << >>]
    /\ log = [e \in Ends |-> {}]
    /\ hsTrace = [e \in Ends |-> << >>]
    /\ senderEnd = [e \in Ends |-> "none"]
    /\ inputsLeft = MaxInputs

Init ==
    /\ kind \in { k \in [Ends -> {"prog", "foreign"}] : \E e \in Ends : k[e] = "prog" }
    /\ ConnStart
    /\ FrameIdle /\ SessionIdle /\ PersistIdle /\ ListenerIdle

\* No end of the connection is this program: nothing happens on it.
NoConn == kind = [e \in Ends |-> "foreign"] /\ ConnStart

(***************************************************************************)
(* Transport                                                               *)
(***************************************************************************)
\* the bytes the next read by e takes from the stream
Consumed(e) == ReadFrame[wire[Other(e)], ~wopen[Other(e)], reset].used

\* the frame that the Receiver of e reads next, when a whole frame is there
HeadFrame(e) == ReadFrame[wire[Other(e)], ~wopen[Other(e)], reset]

\* the message in that frame
HeadMessage(e) == Deserialize[HeadFrame(e).payload]

\* Both halves of e's socket are gone: the write half is dropped and no
\* reader task holds the read half.
SockClosed(e) == ~wopen[e] /\ rx[e] # "running"

\* Outcomes of write_all by e: an error on a broken connection; after the
\* peer closed its socket the write may still be accepted locally.
WriteResults(e) ==
    IF reset THEN {"Err"}
    ELSE IF SockClosed(Other(e)) THEN {"Ok", "Err"}
    ELSE {"Ok"}

WrittenLittleEndian(e, wm) ==
    wire' = [wire EXCEPT ![e] =
                @ \o << Len(Serialize[wm]) % 256, (Len(Serialize[wm]) \div 256) % 256,
                        (Len(Serialize[wm]) \div 65536) % 256,
                        (Len(Serialize[wm]) \div 16777216) % 256 >>
                  \o Serialize[wm]]

WrittenInFront(e, wm) == wire' = [wire EXCEPT ![e] = FrameBytes[wm] \o @]

WrittenTwice(e, wm) == wire' = [wire EXCEPT ![e] = @ \o FrameBytes[wm] \o FrameBytes[wm]]

\* write_msg / write_msg_raw succeeding: the frame is appended to the stream.
\* wire holds the bytes the peer can read: what a failing write_all may have
\* handed to a connection that is broken or closed by the peer reaches no
\* reader and is left out.
Written(e, wm) == wire' = [wire EXCEPT ![e] = @ \o FrameBytes[wm]]

\* handle_conn returns res after printing msgs: the stream (or the write
\* half) is dropped; the caller prints an Err; the client process ends with
\* it, which ends its reader task.
Return(e, res, msgs) ==
    /\ pc' = [pc EXCEPT ![e] = "returned"]
    /\ result' = [result EXCEPT ![e] = res]
    /\ wopen' = [wopen EXCEPT ![e] = FALSE]
    /\ rx' = [rx EXCEPT ![e] = IF ~is_listener(e) /\ @ = "running" THEN "aborted" ELSE @]
    /\ log' = [log EXCEPT ![e] = @ \cup msgs \cup
                  (IF res # "Err" THEN {}
                   ELSE IF is_listener(e) THEN {"connection error"} ELSE {"Error"})]

\* chat_loop is entered with a new Session: the reader task is spawned and
\* the calling task becomes the Sender
EnterChatLoop(e, key) ==
    /\ session' = [session EXCEPT ![e] = SessionNew(key)]
    /\ pc' = [pc EXCEPT ![e] = "sender"]
    /\ rx' = [rx EXCEPT ![e] = "running"]
    /\ UNCHANGED << result, wopen, log >>

(***************************************************************************)
(* handle_conn: the handshake                                              *)
(***************************************************************************)
\* initiator: generate_keypair, write_msg(Handshake)
InitiatorSend(e) ==
    /\ kind[e] = "prog" /\ pc[e] = "hs_send"
    /\ \E s \in Secrets, w \in WriteResults(e) :
        /\ secret' = [secret EXCEPT ![e] = s]
        /\ IF w = "Ok"
           THEN /\ Written(e, Handshake(pubkey_to_b64[PublicKeyOf[s]]))
                /\ hsTrace' = [hsTrace EXCEPT ![e] = Append(@, "write")]
                /\ pc' = [pc EXCEPT ![e] = "hs_await"]
                /\ UNCHANGED << result, wopen, rx, log >>
           ELSE /\ Return(e, "Err", {})
                /\ hsTrace' = [hsTrace EXCEPT ![e] = Append(@, "write_err")]
                /\ UNCHANGED wire
    /\ UNCHANGED libVars
    /\ UNCHANGED << kind, rxWhy, peer_pub, session, reset, sent, delivered,
                    inputsLeft, senderEnd >>

\* initiator: read_msg, match reply
InitiatorRead(e) ==
    /\ kind[e] = "prog" /\ pc[e] = "hs_await"
    /\ \E r \in {read_msg[wire[Other(e)], ~wopen[Other(e)], reset]} :
       LET pk == pubkey_from_b64[r.msg.pubkey]
       IN  /\ r.res # "Blocked"
           /\ wire' = [wire EXCEPT ![Other(e)] = Drop(@, Consumed(e))]
           /\ hsTrace' = [hsTrace EXCEPT ![e] =
                             Append(@, IF r.res = "Err" THEN "Err" ELSE r.msg.tag)]
           /\ IF r.res = "Err" THEN
                  Return(e, "Err", {}) /\ UNCHANGED << peer_pub, session >>
              ELSE IF r.msg.tag # "Handshake" THEN
                  Return(e, "Ok", {"expected handshake reply"})
                  /\ UNCHANGED << peer_pub, session >>
              ELSE IF ~pk.ok THEN
                  Return(e, "Err", {}) /\ UNCHANGED << peer_pub, session >>
              ELSE
                  /\ peer_pub' = [peer_pub EXCEPT ![e] = pk.val]
                  /\ EnterChatLoop(e, derive_shared_key(secret[e], pk.val))
    /\ UNCHANGED libVars
    /\ UNCHANGED << kind, rxWhy, secret, reset, sent, delivered, inputsLeft, senderEnd >>

\* listener: generate_keypair, read_msg, match incoming, pubkey_from_b64
ResponderRead(e) ==
    /\ kind[e] = "prog" /\ pc[e] = "hs_read"
    /\ \E r \in {read_msg[wire[Other(e)], ~wopen[Other(e)], reset]}, s \in Secrets :
       LET pk == pubkey_from_b64[r.msg.pubkey]
       IN  /\ r.res # "Blocked"
           /\ secret' = [secret EXCEPT ![e] = s]
           /\ wire' = [wire EXCEPT ![Other(e)] = Drop(@, Consumed(e))]
           /\ hsTrace' = [hsTrace EXCEPT ![e] =
                             Append(@, IF r.res = "Err" THEN "Err" ELSE r.msg.tag)]
           /\ IF r.res = "Err" THEN
                  Return(e, "Err", {}) /\ UNCHANGED peer_pub
              ELSE IF r.msg.tag # "Handshake" THEN
                  Return(e, "Ok", {"expected handshake"}) /\ UNCHANGED peer_pub
              ELSE IF ~pk.ok THEN
                  Return(e, "Err", {}) /\ UNCHANGED peer_pub
              ELSE
                  /\ peer_pub' = [peer_pub EXCEPT ![e] = pk.val]
                  /\ pc' = [pc EXCEPT ![e] = "hs_reply"]
                  /\ UNCHANGED << result, wopen, rx, log >>
    /\ UNCHANGED libVars
    /\ UNCHANGED << kind, rxWhy, session, reset, sent, delivered, inputsLeft, senderEnd >>

\* listener: write_msg(Handshake), derive_shared_key, Session::new, chat_loop
ResponderReply(e) ==
    /\ kind[e] = "prog" /\ pc[e] = "hs_reply"
    /\ \E w \in WriteResults(e) :
        IF w = "Ok"
        THEN /\ Written(e, Handshake(pubkey_to_b64[PublicKeyOf[secret[e]]]))
             /\ hsTrace' = [hsTrace EXCEPT ![e] = Append(@, "write")]
             /\ EnterChatLoop(e, derive_shared_key(secret[e], peer_pub[e]))
        ELSE /\ Return(e, "Err", {})
             /\ hsTrace' = [hsTrace EXCEPT ![e] = Append(@, "write_err")]
             /\ UNCHANGED << wire, session >>
    /\ UNCHANGED libVars
    /\ UNCHANGED << kind, rxWhy, secret, peer_pub, reset, sent, delivered,
                    inputsLeft, senderEnd >>

(***************************************************************************)
(* chat_loop                                                               *)
(***************************************************************************)
\* a Handshake frame that arrives in chat_loop replaces the key
SharedSessionRekeyed(e) ==
    session' = [session EXCEPT ![e] =
                   IF HeadFrame(e).res = "Data" /\ HeadMessage(e).ok
                      /\ HeadMessage(e).val.tag = "Handshake"
                   THEN SessionNew(derive_shared_key(secret[e],
                                       PublicKeyOf[1]))
                   ELSE @]

\* chat_loop puts its Session into an Arc; the reader task and the stdin loop
\* hold clones of the Arc and use the Session by shared reference only
SharedSession(e) == session' = session

ReceiverRunsInTurn(e) == rx[e] = "running" /\ pc[e] # "sender"

\* The reader loop is a task of its own (tokio::spawn): it takes its turns
\* whenever it has not ended, wherever the stdin loop stands.
ReceiverRuns(e) == rx[e] = "running"

\* one turn of the reader task's loop
ReceiverRead(e) ==
    /\ kind[e] = "prog" /\ ReceiverRuns(e)
    /\ \E r \in {read_msg_from_reader[wire[Other(e)], ~wopen[Other(e)], reset, session[e]]} :
           /\ r.res # "Blocked"
           /\ wire' = [wire EXCEPT ![Other(e)] = Drop(@, Consumed(e))]
           /\ rxWhy' = [rxWhy EXCEPT ![e] = r.why]
           /\ IF r.res = "OkSome" THEN
                  /\ delivered' = [delivered EXCEPT ![e] = Append(@, r.text)]
                  /\ UNCHANGED << rx, log >>
              ELSE IF r.res = "OkNone" THEN
                  /\ rx' = [rx EXCEPT ![e] = "closed"]
                  /\ log' = [log EXCEPT ![e] = @ \cup {"Peer disconnected."}]
                  /\ UNCHANGED delivered
              ELSE IF r.res = "Err" THEN
                  /\ rx' = [rx EXCEPT ![e] = "failed"]
                  /\ log' = [log EXCEPT ![e] = @ \cup {"recv err"}]
                  /\ UNCHANGED delivered
              ELSE
                  /\ rx' = [rx EXCEPT ![e] = "panicked"]
                  /\ log' = [log EXCEPT ![e] = @ \cup {r.why}]
                  /\ UNCHANGED delivered
    /\ SharedSession(e)
    /\ UNCHANGED libVars
    /\ UNCHANGED << kind, pc, result, secret, peer_pub, wopen, reset, sent,
                    hsTrace, inputsLeft, senderEnd >>

\* one turn of the stdin loop in which read_line returns input
SenderTurn(e, input) ==
    /\ kind[e] = "prog" /\ pc[e] = "sender"
    /\ inputsLeft > 0
    /\ inputsLeft' = inputsLeft - 1
    /\ LET n == Len(input)
           text == trim_end(input)
       IN  IF n = 0 \/ text = TextQuit THEN
               /\ pc' = [pc EXCEPT ![e] = "join"]
               /\ senderEnd' = [senderEnd EXCEPT ![e] = IF n = 0 THEN "eof" ELSE "quit"]
               /\ UNCHANGED << result, rx, wire, wopen, sent, log >>
           ELSE IF text = << >> THEN
               UNCHANGED << pc, result, rx, wire, wopen, sent, log, senderEnd >>
           ELSE
               \E nonce_bytes \in Nonces, timestamp \in Timestamps, w \in WriteResults(e) :
               \E enc \in {SessionEncrypt[session[e], text, nonce_bytes]} :
                   IF ~enc.ok THEN
                       /\ pc' = [pc EXCEPT ![e] = "panicked"]
                       /\ log' = [log EXCEPT ![e] = @ \cup {enc.val}]
                       /\ UNCHANGED << result, rx, wire, wopen, sent, senderEnd >>
                   ELSE IF w = "Ok" THEN
                       /\ Written(e, Chat(TextMe, timestamp, B64Encode[enc.val.ct],
                                          B64Encode[enc.val.nonce]))
                       /\ sent' = [sent EXCEPT ![e] = Append(@, text)]
                       /\ UNCHANGED << pc, result, rx, wopen, log, senderEnd >>
                   ELSE
                       /\ Return(e, "Err", {})
                       /\ senderEnd' = [senderEnd EXCEPT ![e] = "error"]
                       /\ UNCHANGED << wire, sent >>
    /\ SharedSession(e)
    /\ UNCHANGED libVars
    /\ UNCHANGED << kind, rxWhy, secret, peer_pub, reset, delivered, hsTrace >>

\* one turn of the stdin loop, for one line of local input or its end
SenderLine(e) == \E input \in StdinLines \cup {StdinEof} : SenderTurn(e, input)

\* reader_task.await completes once the reader task has ended; chat_loop and
\* handle_conn return Ok
Join(e) ==
    /\ kind[e] = "prog" /\ pc[e] = "join"
    /\ rx[e] # "running"
    /\ Return(e, "Ok", {})
    /\ UNCHANGED libVars
    /\ UNCHANGED << kind, rxWhy, secret, peer_pub, session, wire, reset, sent,
                    delivered, hsTrace, inputsLeft, senderEnd >>

(***************************************************************************)
(* Environment: a foreign peer and the network                             *)
(***************************************************************************)
\* the secret a foreign peer uses for its own key agreement
ForeignSecret == MaxSecret

\* a Chat frame for the plaintext hi, with the given key, the nonce used to
\* encrypt, the nonce put into the frame and a change applied to the first
\* ciphertext byte
ForeignChat(key, nonce_used, nonce_sent, flip) ==
    FrameBytes[Chat(TextMe, 1700000000,
                    B64Encode[[AeadEncrypt[key, nonce_used, TextHi]
                                   EXCEPT ![1] = (@ + flip) % 256]],
                    B64Encode[nonce_sent])]

\* Somebody on the other side of e still reads what e writes.
PeerReads(e) == pc[Other(e)] \in {"hs_send", "hs_await", "hs_read"} \/ rx[Other(e)] = "running"

\* The frames a foreign end e may write besides its Handshake: the other
\* variants, a Chat frame under a key of its own, and, once it has both
\* public keys, Chat frames that do or do not authenticate under the key its
\* peer derives.
ForeignWrites(e) ==
    LET key == derive_shared_key(ForeignSecret, PublicKeyOf[secret[Other(e)]])
    IN  { FrameBytes[Ping],
          FrameBytes[Ack(TextMe)],
          ForeignChat(Sha256[<< >>], NonceOf(1), NonceOf(1), 0) }
        \cup
        (IF secret[e] = 0 \/ "write" \notin Range(hsTrace[Other(e)]) THEN {}
         ELSE { ForeignChat(key, NonceOf(1), NonceOf(1), 0),
                ForeignChat(key, NonceOf(1), NonceOf(1), 1),
                ForeignChat(key, NonceOf(1), NonceOf(2), 0) })

\* the foreign peer writes its Handshake frame, once
ForeignHandshake(e) ==
    /\ kind[e] = "foreign" /\ wopen[e] /\ ~reset
    /\ secret[e] = 0
    /\ PeerReads(e)
    /\ secret' = [secret EXCEPT ![e] = ForeignSecret]
    /\ Written(e, Handshake(pubkey_to_b64[PublicKeyOf[ForeignSecret]]))
    /\ UNCHANGED libVars
    /\ UNCHANGED << kind, pc, result, rx, rxWhy, peer_pub, session, wopen,
                    reset, sent, delivered, log, hsTrace, inputsLeft, senderEnd >>

\* the foreign peer writes another frame
ForeignWrite(e) ==
    /\ kind[e] = "foreign" /\ wopen[e] /\ ~reset
    /\ PeerReads(e)
    /\ inputsLeft > 0
    /\ inputsLeft' = inputsLeft - 1
    /\ \E b \in ForeignWrites(e) : wire' = [wire EXCEPT ![e] = @ \o b]
    /\ UNCHANGED libVars
    /\ UNCHANGED << kind, pc, result, rx, rxWhy, secret, peer_pub, session, wopen,
                    reset, sent, delivered, log, hsTrace, senderEnd >>

\* the foreign peer closes its socket
ForeignClose(e) ==
    /\ kind[e] = "foreign" /\ wopen[e]
    /\ PeerReads(e) \/ pc[Other(e)] \in {"hs_reply", "sender"}
    /\ wopen' = [wopen EXCEPT ![e] = FALSE]
    /\ pc' = [pc EXCEPT ![e] = "returned"]
    /\ UNCHANGED libVars
    /\ UNCHANGED << kind, result, rx, rxWhy, secret, peer_pub, session, wire,
                    reset, sent, delivered, log, hsTrace, inputsLeft, senderEnd >>

\* the connection breaks: from now on reads and writes fail
NetworkReset ==
    /\ ~reset
    /\ \E e \in Ends : kind[e] = "prog" /\ (pc[e] # "returned" \/ rx[e] = "running")
    /\ reset' = TRUE
    /\ UNCHANGED libVars
    /\ UNCHANGED << kind, pc, result, rx, rxWhy, secret, peer_pub, session, wire,
                    wopen, sent, delivered, log, hsTrace, inputsLeft, senderEnd >>

(***************************************************************************)
(* Environment: a peer that does not keep to the protocol                  *)
(***************************************************************************)
\* lengths at which such a peer cuts the Ping frame (4 length bytes and 6
\* payload bytes) before it closes: inside the length, at the end of the
\* length, inside the payload
TruncatedLens == {1, LenPrefix - 1, LenPrefix, LenPrefix + 2}

\* the peer writes the first bytes of a frame and closes its socket
ForeignTruncated(e) ==
    /\ kind[e] = "foreign" /\ wopen[e] /\ ~reset
    /\ PeerReads(e)
    /\ \E n \in TruncatedLens : wire' = [wire EXCEPT ![e] = @ \o Take(FrameBytes[Ping], n)]
    /\ wopen' = [wopen EXCEPT ![e] = FALSE]
    /\ pc' = [pc EXCEPT ![e] = "returned"]
    /\ UNCHANGED libVars
    /\ UNCHANGED << kind, result, rx, rxWhy, secret, peer_pub, session, reset, sent,
                    delivered, log, hsTrace, inputsLeft, senderEnd >>

\* texts that are no encoding of a 32-byte key: not base64, the empty text,
\* and the encodings of 31 and of 33 bytes
MalformedKeys ==
    { Utf8(<< "k", "e", "y", "!" >>),
      << >>,
      B64Encode[Take(PublicKeyOf[ForeignSecret], KeyLen - 1)],
      B64Encode[PublicKeyOf[ForeignSecret] \o << 7 >>] }

\* the peer writes a Handshake frame with such a text as its key
ForeignBadKey(e) ==
    /\ kind[e] = "foreign" /\ wopen[e] /\ ~reset
    /\ secret[e] = 0
    /\ PeerReads(e)
    /\ secret' = [secret EXCEPT ![e] = ForeignSecret]
    /\ \E k \in MalformedKeys : Written(e, Handshake(k))
    /\ UNCHANGED libVars
    /\ UNCHANGED << kind, pc, result, rx, rxWhy, peer_pub, session, wopen,
                    reset, sent, delivered, log, hsTrace, inputsLeft, senderEnd >>

\* Frames such a peer writes once it has both public keys: a second
\* Handshake, and Chat frames encrypted under the shared key whose nonce
\* field holds one byte less or one byte more than the nonce used.
HostileWrites(e) ==
    LET key == derive_shared_key(ForeignSecret, PublicKeyOf[secret[Other(e)]])
    IN  { FrameBytes[Handshake(pubkey_to_b64[PublicKeyOf[1]])],
          ForeignChat(key, NonceOf(1), Take(NonceOf(1), NonceLen - 1), 0),
          ForeignChat(key, NonceOf(1), NonceOf(1) \o << 0 >>, 0) }

ForeignHostileWrite(e) ==
    /\ kind[e] = "foreign" /\ wopen[e] /\ ~reset
    /\ secret[e] # 0 /\ "write" \in Range(hsTrace[Other(e)])
    /\ PeerReads(e)
    /\ inputsLeft > 0
    /\ inputsLeft' = inputsLeft - 1
    /\ \E b \in HostileWrites(e) : wire' = [wire EXCEPT ![e] = @ \o b]
    /\ UNCHANGED libVars
    /\ UNCHANGED << kind, pc, result, rx, rxWhy, secret, peer_pub, session, wopen,
                    reset, sent, delivered, log, hsTrace, senderEnd >>

(***************************************************************************)
(* Specifications                                                          *)
(***************************************************************************)
Program(e) ==
    \/ InitiatorSend(e)
    \/ InitiatorRead(e)
    \/ ResponderRead(e)
    \/ ResponderReply(e)
    \/ ReceiverRead(e)
    \/ Join(e)

Next ==
    \/ \E e \in Ends : Program(e)
    \/ \E e \in Ends : SenderLine(e)
    \/ \E e \in Ends : ForeignHandshake(e)
    \/ \E e \in Ends : ForeignWrite(e)
    \/ \E e \in Ends : ForeignClose(e)
    \/ NetworkReset

Spec == Init /\ [][Next]_vars

\* The runtime eventually runs every task that can take a step.  Local
\* input, the foreign peer and the network are under no obligation.
FairSpec == Spec /\ \A e \in Ends : WF_vars(Program(e))

\* The same program with a peer that may also break the protocol.
HostileNext ==
    \/ Next
    \/ \E e \in Ends : ForeignTruncated(e)
    \/ \E e \in Ends : ForeignBadKey(e)
    \/ \E e \in Ends : ForeignHostileWrite(e)

HostileSpec == Init /\ [][HostileNext]_vars

(***************************************************************************)
(* The framing on its own: write_msg and read_msg on one stream            *)
(***************************************************************************)
\* the most messages written to the stream
MaxFrames == 2

\* a text with the characters the serializer escapes
TextEscaped == << Quote, 97, BackSlash, NewLine >>

\* Messages of every variant: without fields, with short, empty and escaped
\* texts, and as the program itself builds them.
FrameMessages ==
    { Ping,
      Ack(TextMe),
      Ack(TextEscaped),
      Handshake(pubkey_to_b64[PublicKeyOf[1]]),
      Chat(TextMe, 1700000000, B64Encode[TextHi], B64Encode[NonceOf(1)]),
      Chat(<< >>, 0, << >>, TextEscaped) }

FrameInit ==
    /\ NoConn
    /\ FrameIdle /\ SessionIdle /\ PersistIdle /\ ListenerIdle

\* write_msg(stream, wm) on the stream from "I" to "R"
FrameWrite ==
    /\ Len(written) < MaxFrames
    /\ \E wm \in FrameMessages :
           /\ Written("I", wm)
           /\ written' = Append(written, wm)
    /\ UNCHANGED << kind, pc, result, rx, rxWhy, secret, peer_pub, session, wopen,
                    reset, sent, delivered, log, hsTrace, senderEnd, inputsLeft >>
    /\ UNCHANGED << readBack, sessionVars, persistVars, listenerVars >>

\* read_msg(stream) at the other end of that stream
FrameRead ==
    /\ \E r \in {read_msg[wire["I"], ~wopen["I"], reset]} :
           /\ r.res # "Blocked"
           /\ readBack' = Append(readBack, r)
    /\ wire' = [wire EXCEPT !["I"] = Drop(@, Consumed("R"))]
    /\ UNCHANGED << kind, pc, result, rx, rxWhy, secret, peer_pub, session, wopen,
                    reset, sent, delivered, log, hsTrace, senderEnd, inputsLeft >>
    /\ UNCHANGED << written, sessionVars, persistVars, listenerVars >>

FrameNext == FrameWrite \/ FrameRead

FrameSpec == FrameInit /\ [][FrameNext]_vars

(***************************************************************************)
(* The Session type on its own (peer-common/src/lib.rs)                    *)
(***************************************************************************)
\* 32-byte keys
SessionKeys == {DigestOf[s] : s \in 0..(MaxSecret + 1)}

SessionTexts == {TextHi, TextYo, << >>}

\* ciphertexts handed to decrypt: made under each key, and one of them with
\* its first byte changed
SessionCiphertexts ==
    {AeadEncrypt[k, NonceOf(1), t] : k \in SessionKeys, t \in {TextHi, TextYo}}
    \cup {[AeadEncrypt[DigestOf[0], NonceOf(1), TextHi] EXCEPT ![1] = (@ + 1) % 256]}

SessionInit ==
    /\ NoConn
    /\ FrameIdle /\ SessionIdle /\ PersistIdle /\ ListenerIdle

\* Session::new(key)
SessionByNew ==
    /\ \E k \in SessionKeys : sut' = SessionNew(k)
    /\ out' = [call |-> "new"]
    /\ UNCHANGED << connVars, frameVars, persistVars, listenerVars >>

\* Session { key, cipher }: both fields are public
SessionByLiteral ==
    /\ \E k \in SessionKeys, c \in CipherType : sut' = [key |-> k, cipher |-> c]
    /\ out' = [call |-> "literal"]
    /\ UNCHANGED << connVars, frameVars, persistVars, listenerVars >>

\* session.encrypt(plaintext)
SessionCallEncrypt ==
    /\ sut # NoSession
    /\ \E t \in SessionTexts, n \in Nonces :
           out' = [call |-> "encrypt", arg |-> t, res |-> SessionEncrypt[sut, t, n]]
    /\ UNCHANGED << connVars, sut, frameVars, persistVars, listenerVars >>

\* session.decrypt(ciphertext, nonce)
SessionCallDecrypt ==
    /\ sut # NoSession
    /\ \E ct \in SessionCiphertexts :
           out' = [call |-> "decrypt", arg |-> ct, res |-> SessionDecrypt[sut, ct, NonceOf(1)]]
    /\ UNCHANGED << connVars, sut, frameVars, persistVars, listenerVars >>

SessionNext ==
    \/ SessionByNew
    \/ SessionByLiteral
    \/ SessionCallEncrypt
    \/ SessionCallDecrypt

SessionSpec == SessionInit /\ [][SessionNext]_vars

(***************************************************************************)
(* The peer store on its own (peer-core/src/persistence.rs)                *)
(***************************************************************************)
\* the number of aliases in use
MaxNames == 3

\* aliases "a", "b", ... and two addresses
Names == {<< 96 + i >> : i \in 1..MaxNames}
Addrs == {Utf8(<< "x" >>), Utf8(<< "y" >>)}

\* struct PeerConfig, as add_peer builds it
PeerConfig(name, addr) == [name |-> name, addr |-> addr, pubkey_b64 |-> "None"]

\* Option<&PeerConfig>
None == [some |-> FALSE, val |-> PeerConfig(<< >>, << >>)]
Some(v) == [some |-> TRUE, val |-> v]

\* self.peers.retain(|p| p.name != name)
RECURSIVE Retain(_, _)
Retain(ps, name) ==
    IF ps = << >> THEN << >>
    ELSE (IF Head(ps).name # name THEN << Head(ps) >> ELSE << >>) \o Retain(Tail(ps), name)

add_peer_without_retain(ps, name, addr) == Append(ps, PeerConfig(name, addr))

\* Persist::add_peer(&mut self, name, addr): the new value of self.peers
add_peer(ps, name, addr) == Append(Retain(ps, name), PeerConfig(name, addr))

\* Persist::get_peer(&self, name): the first entry with that name
get_peer(ps, name) ==
    IF \A i \in 1..Len(ps) : ps[i].name # name THEN None
    ELSE Some(ps[CHOOSE i \in 1..Len(ps) :
                     /\ ps[i].name = name
                     /\ \A j \in 1..(i - 1) : ps[j].name # name])

\* the address in the store ps under name, << >> if there is none
AddrIn(ps, name) == IF get_peer(ps, name).some THEN get_peer(ps, name).val.addr ELSE << >>

\* Stores without duplicate names, of up to two entries.
StartStores ==
    {<< >>}
    \cup {<< PeerConfig(n, a) >> : n \in Names, a \in Addrs}
    \cup {<< PeerConfig(n[1], a[1]), PeerConfig(n[2], a[2]) >> :
              n \in {m \in Names \X Names : m[1] # m[2]}, a \in Addrs \X Addrs}

PersistInit ==
    /\ NoConn
    /\ FrameIdle /\ SessionIdle /\ ListenerIdle
    /\ peers \in StartStores
    /\ latest = [n \in Names |-> AddrIn(peers, n)]
    /\ got = [call |-> "none"]

\* persist.add_peer(name, addr)
PersistAdd ==
    /\ \E n \in Names, a \in Addrs :
           /\ peers' = add_peer(peers, n, a)
           /\ latest' = [latest EXCEPT ![n] = a]
           /\ got' = [call |-> "add_peer", name |-> n,
                      replaced |-> \E i \in 1..Len(peers) : peers[i].name = n]
    /\ UNCHANGED << connVars, frameVars, sessionVars, listenerVars >>

\* persist.get_peer(name)
PersistGet ==
    /\ \E n \in Names :
           got' = [call |-> "get_peer", name |-> n, res |-> get_peer(peers, n),
                   replaced |-> got.call = "add_peer" /\ got.name = n /\ got.replaced]
    /\ UNCHANGED << connVars, peers, latest, frameVars, sessionVars, listenerVars >>

PersistNext == PersistAdd \/ PersistGet

PersistSpec == PersistInit /\ [][PersistNext]_vars

(***************************************************************************)
(* start_listener: the accept loop and the tasks it spawns                 *)
(***************************************************************************)
\* the most connections accepted
MaxConns == 2

Conns == 1..MaxConns

\* Lines typed at the terminal of the listening process.
ListenerLines == {TextHi \o << NewLine >>, TextQuit \o << NewLine >>}

\* sequences of at most n lines
TypedUpTo(n) == UNION {[1..k -> ListenerLines] : k \in 0..n}

\* The task of a connection.  st: "free" (not accepted yet), "handshake"
\* (handle_conn before chat_loop), "sender" (the stdin loop), "join"
\* (reader_task.await), "returned" (handle_conn returned Ok), "failed" (it
\* returned Err and "connection error" was printed), "cancelled" (the
\* runtime was shut down).  rx: the reader task.  sent: the lines sent.
FreeConn == [st |-> "free", rx |-> "none", sent |-> << >>]

\* The listener is bound and waits in accept(); stdin holds what the user
\* is going to type.
ListenerInit ==
    /\ NoConn
    /\ FrameIdle /\ SessionIdle /\ PersistIdle
    /\ listening = "accepting"
    /\ conn = [c \in Conns |-> FreeConn]
    /\ stdin \in TypedUpTo(MaxInputs)

\* listener.accept() returns a socket: a task running handle_conn is spawned
Accept ==
    /\ listening = "accepting"
    /\ \E c \in Conns :
           /\ conn[c].st = "free"
           /\ \A b \in 1..(c - 1) : conn[b].st # "free"
           /\ conn' = [conn EXCEPT ![c].st = "handshake"]
    /\ UNCHANGED << connVars, listening, stdin, frameVars, sessionVars, persistVars >>

\* listener.accept() returns an error: the ? operator makes start_listener
\* return it, main returns it, and the runtime is shut down with all tasks
AcceptFails ==
    /\ listening = "accepting"
    /\ listening' = "failed"
    /\ conn' = [c \in Conns |->
                   [conn[c] EXCEPT
                       !.st = IF @ \in {"handshake", "sender", "join"} THEN "cancelled" ELSE @,
                       !.rx = IF @ = "running" THEN "cancelled" ELSE @]]
    /\ UNCHANGED << connVars, stdin, frameVars, sessionVars, persistVars >>

\* handle_conn of connection c up to chat_loop: the handshake succeeds and
\* chat_loop spawns the reader task, or a read or write fails
ConnHandshake(c) ==
    /\ listening = "accepting"
    /\ conn[c].st = "handshake"
    /\ \E ok \in BOOLEAN :
           conn' = [conn EXCEPT ![c].st = IF ok THEN "sender" ELSE "failed",
                                ![c].rx = IF ok THEN "running" ELSE "none"]
    /\ UNCHANGED << connVars, listening, stdin, frameVars, sessionVars, persistVars >>

\* One turn of the stdin loop of connection c.  Every chat_loop reads the
\* standard input of the process: the loop that reads a line takes it.
ConnLine(c) ==
    /\ listening = "accepting"
    /\ conn[c].st = "sender"
    /\ stdin # << >>
    /\ stdin' = Tail(stdin)
    /\ LET text == trim_end(Head(stdin))
       IN  IF text = TextQuit THEN conn' = [conn EXCEPT ![c].st = "join"]
           ELSE \E w \in {"Ok", "Err"} :
                    IF w = "Ok"
                    THEN conn' = [conn EXCEPT ![c].sent = Append(@, text)]
                    ELSE conn' = [conn EXCEPT ![c].st = "failed"]
    /\ UNCHANGED << connVars, listening, frameVars, sessionVars, persistVars >>

\* the reader task of connection c ends: the peer closed, or a read failed
ConnReader(c) ==
    /\ listening = "accepting"
    /\ conn[c].rx = "running"
    /\ \E how \in {"closed", "failed"} : conn' = [conn EXCEPT ![c].rx = how]
    /\ UNCHANGED << connVars, listening, stdin, frameVars, sessionVars, persistVars >>

\* reader_task.await of connection c completes
ConnJoin(c) ==
    /\ listening = "accepting"
    /\ conn[c].st = "join"
    /\ conn[c].rx # "running"
    /\ conn' = [conn EXCEPT ![c].st = "returned"]
    /\ UNCHANGED << connVars, listening, stdin, frameVars, sessionVars, persistVars >>

ListenerNext ==
    \/ Accept
    \/ AcceptFails
    \/ \E c \in Conns : ConnHandshake(c)
    \/ \E c \in Conns : ConnLine(c)
    \/ \E c \in Conns : ConnReader(c)
    \/ \E c \in Conns : ConnJoin(c)

ListenerSpec == ListenerInit /\ [][ListenerNext]_vars

TypeOK ==
    /\ kind \in [Ends -> {"prog", "foreign"}]
    /\ pc \in [Ends -> {"hs_send", "hs_await", "hs_read", "hs_reply", "sender", "join",
                        "returned", "panicked", "foreign"}]
    /\ result \in [Ends -> {"none", "Ok", "Err"}]
    /\ rx \in [Ends -> {"none", "running", "closed", "failed", "panicked", "aborted"}]
    /\ secret \in [Ends -> 0..MaxSecret]
    /\ \A e \in Ends : session[e] = NoSession \/ Len(session[e].key) = KeyLen
    /\ reset \in BOOLEAN
    /\ wopen \in [Ends -> BOOLEAN]
    /\ inputsLeft \in 0..MaxInputs

(***************************************************************************)
(* Properties                                                              *)
(***************************************************************************)
\* both ends run this program
BothProg == \A e \in Ends : kind[e] = "prog"

\* e has constructed its Session and entered chat_loop
Established(e) == session[e] # NoSession

IsPrefix(s, t) == Len(s) <= Len(t) /\ s = Take(t, Len(s))

\* C1: between an initiator and a responder that both run handle_conn, a
\* Session is built from the end's own secret and the public key of the other
\* end, and once both ends hold a Session the two keys are equal.
C1_SameSessionKey ==
    BothProg =>
        /\ \A e \in Ends :
               Established(e) =>
                   /\ peer_pub[e] = PublicKeyOf[secret[Other(e)]]
                   /\ session[e].key = derive_shared_key(secret[e], peer_pub[e])
        /\ (Established("I") /\ Established("R")) => session["I"].key = session["R"].key

C1_Witness ==
    /\ BothProg
    /\ Established("I") /\ Established("R")
    /\ secret["I"] # secret["R"]

\* C2: an end that reads a Chat, Ack or Ping frame where it expects the
\* Handshake returns an error, builds no Session, spawns no reader task and,
\* as the listener, has written no Handshake frame.
C2_ProtocolError ==
    \A e \in Ends :
        (kind[e] = "prog" /\ Range(hsTrace[e]) \cap {"Chat", "Ack", "Ping"} # {}) =>
            /\ result[e] = "Err"
            /\ session[e] = NoSession
            /\ rx[e] = "none"
            /\ is_listener(e) => "write" \notin Range(hsTrace[e])

\* C2, as the code has it: the same, but handle_conn returns Ok(()).
C2_AbortsWithoutSession ==
    \A e \in Ends :
        (kind[e] = "prog" /\ Range(hsTrace[e]) \cap {"Chat", "Ack", "Ping"} # {}) =>
            /\ pc[e] = "returned"
            /\ result[e] = "Ok"
            /\ log[e] \cap {"expected handshake", "expected handshake reply"} # {}
            /\ session[e] = NoSession
            /\ rx[e] = "none"
            /\ is_listener(e) => "write" \notin Range(hsTrace[e])

\* C3: the handshake is one round trip.  The initiator writes its Handshake
\* before it reads; the listener writes its Handshake only after it has read
\* a Handshake and decoded the key in it; a Session exists only after exactly
\* one Handshake written and one frame read; nothing is written or read in
\* the handshake after a failure.
C3_OneRoundTrip ==
    \A e \in Ends :
        kind[e] = "prog" =>
            /\ Len(hsTrace[e]) <= 2
            /\ (~is_listener(e) /\ Len(hsTrace[e]) >= 1) =>
                   hsTrace[e][1] \in {"write", "write_err"}
            /\ (~is_listener(e) /\ Len(hsTrace[e]) = 2) => hsTrace[e][1] = "write"
            /\ (is_listener(e) /\ Len(hsTrace[e]) >= 1) =>
                   hsTrace[e][1] \notin {"write", "write_err"}
            /\ (is_listener(e) /\ Len(hsTrace[e]) = 2) =>
                   /\ hsTrace[e][1] = "Handshake"
                   /\ hsTrace[e][2] \in {"write", "write_err"}
                   /\ Len(peer_pub[e]) = KeyLen
            /\ Established(e) =>
                   hsTrace[e] = IF is_listener(e) THEN << "Handshake", "write" >>
                                ELSE << "write", "Handshake" >>
            /\ (pc[e] = "returned" /\ ~Established(e)) =>
                   \/ hsTrace[e][Len(hsTrace[e])] \in {"write_err", "Err", "Chat", "Ack", "Ping"}
                   \/ hsTrace[e][Len(hsTrace[e])] = "Handshake" /\ peer_pub[e] = << >>

C3_Witness ==
    /\ BothProg
    /\ Established("I") /\ Established("R")
    /\ hsTrace["I"] = << "write", "Handshake" >>
    /\ hsTrace["R"] = << "Handshake", "write" >>

\* C4: when both ends run handle_conn and the connection does not break, both
\* ends eventually hold a Session with their reader task spawned.
C4_HandshakeCompletes ==
    <>(~BothProg \/ reset \/ \A e \in Ends : Established(e) /\ rx[e] # "none")

C4_Witness ==
    /\ BothProg /\ ~reset
    /\ \A e \in Ends : Established(e) /\ rx[e] = "running" /\ pc[e] = "sender"

\* C5: what the Receiver of an end has delivered is a prefix of what the
\* Sender of the other end has transmitted.
C5_DeliveredPrefixOfSent ==
    BothProg => \A e \in Ends : IsPrefix(delivered[e], sent[Other(e)])

C5_Witness ==
    /\ BothProg
    /\ \E e \in Ends : Len(delivered[e]) = 2 /\ delivered[e][1] # delivered[e][2]

\* The next frame for the Receiver of e is a Chat message with well-formed
\* fields and a 24-byte nonce whose ciphertext does not authenticate under
\* the session key of e and that nonce.
UnauthenticatedChatAtHead(e) ==
    /\ HeadFrame(e).res = "Data"
    /\ HeadMessage(e).ok
    /\ HeadMessage(e).val.tag = "Chat"
    /\ B64Decode[HeadMessage(e).val.payload].ok
    /\ B64Decode[HeadMessage(e).val.nonce].ok
    /\ Len(B64Decode[HeadMessage(e).val.nonce].val) = NonceLen
    /\ ~AeadDecrypt[session[e].key, B64Decode[HeadMessage(e).val.nonce].val,
                    B64Decode[HeadMessage(e).val.payload].val].ok

\* C6: when the Receiver reads a Chat frame whose ciphertext does not
\* authenticate, the read yields an error and no panic: nothing is delivered,
\* the Receiver logs the error ("recv err") and ends.
C6_AuthFailureIsError ==
    [][\A e \in Ends :
          (UnauthenticatedChatAtHead(e) /\ ReceiverRead(e)) =>
              /\ rx'[e] = "failed"
              /\ "recv err" \in log'[e]
              /\ delivered'[e] = delivered[e]]_vars

\* C7: once the Receiver of an end has observed a clean close of the peer,
\* chat_loop returns without error, whatever local input there is.
C7_CleanCloseEndsLoop ==
    \A e \in Ends :
        (kind[e] = "prog" /\ rx[e] = "closed" /\ rxWhy[e] = "Eof")
            ~> (pc[e] = "returned" /\ result[e] = "Ok")

\* C8: once the Sender of an end has left the stdin loop (quit or end of
\* input), chat_loop returns, whatever the peer does.
C8_SenderExitEndsLoop ==
    \A e \in Ends :
        (kind[e] = "prog" /\ senderEnd[e] \in {"quit", "eof"}) ~> pc[e] = "returned"

\* C9: when the Sender of one end quits, the Receiver of the other end
\* eventually observes a clean close (unless the connection breaks); when
\* both Senders have quit, both chat loops return.
C9_QuitEndsSession ==
    /\ \A e \in Ends :
           (BothProg /\ senderEnd[e] = "quit")
               ~> (reset \/ (rx[Other(e)] = "closed" /\ rxWhy[Other(e)] = "Eof"))
    /\ (BothProg /\ \A e \in Ends : senderEnd[e] = "quit")
           ~> (\A e \in Ends : pc[e] = "returned")

\* The next frame for the Receiver of e is a Ping message.
PingAtHead(e) ==
    /\ HeadFrame(e).res = "Data"
    /\ HeadMessage(e) = Ok(Ping)

\* C10: reading a Ping frame, the Receiver delivers nothing, prints nothing
\* and keeps running.
C10_PingIsIgnored ==
    [][\A e \in Ends :
          (PingAtHead(e) /\ ReceiverRead(e)) =>
              /\ rx'[e] = "running"
              /\ log'[e] = log[e]
              /\ delivered'[e] = delivered[e]]_vars

\* The stream of the peer of e ended inside a frame: after 1 to 3 bytes of
\* the length, or after the length and before the last payload byte.
TruncatedAtHead(e) ==
    \/ HeadFrame(e).res = "EofBody"
    \/ HeadFrame(e).res = "EofLen" /\ wire[Other(e)] # << >>

\* The stream of the peer of e ended before any byte of a length.
CleanEofAtHead(e) == HeadFrame(e).res = "EofLen" /\ wire[Other(e)] = << >>

\* C11: a read on a stream that ended inside a frame is an error (the
\* Receiver logs it and fails, handle_conn returns Err, nothing is delivered
\* or decoded), and a Receiver that meets the end of the stream reports a
\* clean close only if no byte of a length had arrived.
C11_TruncationIsError ==
    [][\A e \in Ends :
          /\ (TruncatedAtHead(e) /\ ReceiverRead(e)) =>
                 /\ rx'[e] = "failed"
                 /\ "recv err" \in log'[e]
                 /\ delivered'[e] = delivered[e]
          /\ (TruncatedAtHead(e) /\ (InitiatorRead(e) \/ ResponderRead(e))) =>
                 /\ result'[e] = "Err"
                 /\ session'[e] = NoSession
          /\ (HeadFrame(e).res # "Data" /\ ReceiverRead(e) /\ rx'[e] = "closed") =>
                 CleanEofAtHead(e)]_vars

\* The next frame for e is a Handshake whose pubkey text is not base64 or
\* decodes to another number of bytes than 32.
BadKeyAtHead(e) ==
    /\ HeadFrame(e).res = "Data"
    /\ HeadMessage(e).ok
    /\ HeadMessage(e).val.tag = "Handshake"
    /\ \/ ~B64Decode[HeadMessage(e).val.pubkey].ok
       \/ Len(B64Decode[HeadMessage(e).val.pubkey].val) # KeyLen

\* C12: an end that reads a Handshake with a malformed key returns an error:
\* it keeps no key (none cut or filled to 32 bytes), builds no Session, spawns
\* no reader task, and the listener has written nothing; once handle_conn
\* has returned, the end does nothing more on the connection.  The read is
\* the one step that takes an end out of "hs_await" or "hs_read".
C12_MalformedKeyAborts ==
    [][\A e \in Ends :
          /\ (/\ kind[e] = "prog" /\ pc[e] \in {"hs_await", "hs_read"}
              /\ pc'[e] # pc[e]
              /\ BadKeyAtHead(e)) =>
                 /\ pc'[e] = "returned"
                 /\ result'[e] = "Err"
                 /\ peer_pub'[e] = << >>
                 /\ session'[e] = NoSession
                 /\ rx'[e] = "none"
                 /\ is_listener(e) => "write" \notin Range(hsTrace'[e])
          /\ (kind[e] = "prog" /\ pc[e] = "returned") =>
                 /\ pc'[e] = "returned"
                 /\ session'[e] = session[e]
                 /\ hsTrace'[e] = hsTrace[e]]_vars

C12_Witness ==
    /\ kind["R"] = "prog"
    /\ hsTrace["R"] = << "Handshake" >>
    /\ pc["R"] = "returned" /\ result["R"] = "Err"
    /\ "connection error" \in log["R"]

\* C15: in chat_loop the Sender and the Receiver do not wait for each other.
\* As long as the stdin loop runs, a line of local input can be taken and
\* sent, whatever the reader task does; as long as the reader task runs, a
\* frame that has arrived (or the end of the stream) can be taken, wherever
\* the stdin loop stands.
C15_SenderReceiverIndependent ==
    \A e \in Ends :
        kind[e] = "prog" =>
            /\ (pc[e] = "sender" /\ inputsLeft > 0) => ENABLED SenderLine(e)
            /\ (rx[e] = "running" /\ HeadFrame(e).res # "Blocked") => ENABLED ReceiverRead(e)

\* One end has sent two messages while its Receiver waits for a first frame,
\* and the Receiver of the other end has delivered both while its Sender
\* waits for a first line.
C15_Witness ==
    /\ BothProg
    /\ \E e \in Ends :
           /\ Len(sent[e]) = 2 /\ delivered[e] = << >>
           /\ rx[e] = "running" /\ HeadFrame(e).res = "Blocked"
           /\ Len(delivered[Other(e)]) = 2 /\ sent[Other(e)] = << >>
           /\ pc[Other(e)] = "sender"

\* C17: the Session of an end never changes once it is constructed, whatever
\* frames arrive and however many messages are encrypted and decrypted; the
\* stdin loop and the reader task use this one Session.
C17_SessionImmutable ==
    [][\A e \in Ends :
          (kind[e] = "prog" /\ Established(e)) => session'[e] = session[e]]_vars

\* An end has decrypted a message and then read a further Handshake frame.
C17_Witness ==
    \E e \in Ends :
        /\ kind[e] = "prog" /\ Established(e)
        /\ Len(delivered[e]) = 1
        /\ rxWhy[e] = "Handshake"
        /\ session[e] = SessionNew(derive_shared_key(secret[e], peer_pub[e]))

\* The next frame for the Receiver of e is a Chat message whose payload and
\* nonce are base64 and whose nonce decodes to another number of bytes
\* than 24.
OddNonceChatAtHead(e) ==
    /\ HeadFrame(e).res = "Data"
    /\ HeadMessage(e).ok
    /\ HeadMessage(e).val.tag = "Chat"
    /\ B64Decode[HeadMessage(e).val.payload].ok
    /\ B64Decode[HeadMessage(e).val.nonce].ok
    /\ Len(B64Decode[HeadMessage(e).val.nonce].val) # NonceLen

\* C20: a Chat frame whose nonce is not 24 bytes long is an error: the
\* Receiver logs it ("recv err") and ends without a panic, and nothing is
\* decrypted with a nonce cut or filled to 24 bytes, so nothing is delivered.
C20_NonceLengthIsError ==
    [][\A e \in Ends :
          (OddNonceChatAtHead(e) /\ ReceiverRead(e)) =>
              /\ rx'[e] = "failed"
              /\ "recv err" \in log'[e]
              /\ delivered'[e] = delivered[e]]_vars

\* the bytes of the frames of the messages ms, one after the other
RECURSIVE FramesOf(_)
FramesOf(ms) == IF ms = << >> THEN << >> ELSE FrameBytes[Head(ms)] \o FramesOf(Tail(ms))

\* the number a 4-byte big-endian length stands for
BigEndian(b) == ((b[1] * 256 + b[2]) * 256 + b[3]) * 256 + b[4]

\* C16: a frame is the 4-byte big-endian count of the bytes of the serialized
\* message followed by exactly those bytes, and the messages read from a
\* stream are the messages written to it, in order: each read gives the
\* next message with its variant and fields, and leaves on the stream the
\* frames of the messages not read yet.
C16_FramingRoundTrip ==
    /\ \A wm \in FrameMessages :
           /\ Len(FrameBytes[wm]) >= LenPrefix
           /\ BigEndian(Take(FrameBytes[wm], LenPrefix)) = Len(FrameBytes[wm]) - LenPrefix
           /\ Deserialize[Drop(FrameBytes[wm], LenPrefix)] = Ok(wm)
    /\ Len(readBack) <= Len(written)
    /\ \A i \in 1..Len(readBack) : readBack[i] = [res |-> "Ok", msg |-> written[i]]
    /\ written # << >> =>
           wire["I"] = FramesOf(SubSeq(written, Len(readBack) + 1, Len(written)))

\* Two messages were written, a Chat as the program builds it and an Ack
\* with escaped characters, and both were read back.
C16_Witness ==
    /\ Len(readBack) = 2
    /\ readBack[1].msg.tag = "Chat" /\ readBack[1].msg.timestamp = 1700000000
    /\ readBack[2].msg = Ack(TextEscaped)
    /\ wire["I"] = << >>

\* C18: a Session made by Session::new selects XChaCha20Poly1305; every
\* encrypt and decrypt call on a Session that selects AES256GCM panics with
\* "AES256GCM not yet implemented" and returns nothing made with another
\* cipher; a call on a Session that selects XChaCha20Poly1305 never ends in
\* that panic.
C18_UnimplementedCipherFails ==
    /\ out.call = "new" => sut.cipher = "XChaCha20Poly1305"
    /\ out.call \in {"encrypt", "decrypt"} =>
           IF sut.cipher = "AES256GCM"
           THEN out.res.panic /\ out.res.val = "AES256GCM not yet implemented"
           ELSE out.res.panic => out.res.val # "AES256GCM not yet implemented"
    /\ (out.call = "encrypt" /\ sut.cipher # "AES256GCM") => out.res.ok

\* A Session that selects AES256GCM was asked to decrypt.
C18_Witness ==
    /\ sut.cipher = "AES256GCM"
    /\ out.call = "decrypt"
    /\ out.res.panic

\* C19: the store never holds two entries with one name; under every name
\* it holds the address of the last add_peer for that name (of the start
\* store, if there was none) and nothing under a name never added, so an
\* add_peer for one name leaves the entries of all other names as they were;
\* get_peer returns that entry.
C19_AddPeerReplaces ==
    /\ \A i, j \in 1..Len(peers) : peers[i].name = peers[j].name => i = j
    /\ \A n \in Names :
           IF latest[n] = << >>
           THEN \A i \in 1..Len(peers) : peers[i].name # n
           ELSE \E i \in 1..Len(peers) : peers[i] = PeerConfig(n, latest[n])
    /\ got.call = "get_peer" =>
           got.res = IF latest[got.name] = << >> THEN None
                     ELSE Some(PeerConfig(got.name, latest[got.name]))

\* get_peer was called right after an add_peer that replaced the entry of
\* that name while the store held an entry of another name.
C19_Witness ==
    /\ got.call = "get_peer" /\ got.replaced
    /\ Len(peers) = 2
    /\ got.res = Some(peers[2])
    /\ peers[2].addr = latest[got.name]

\* what the stdin loop of connection d gets from its next read_line
NextLine(d) == IF conn[d].st = "sender" /\ stdin # << >> THEN Head(stdin) ELSE << >>

\* C13: a step of the task of one connection changes nothing of another
\* connection: neither its state, nor what it has sent, nor the line of
\* local input its stdin loop is about to read.
C13_ConnectionsIsolated ==
    [][\A c, d \in Conns :
          (c # d /\ (ConnHandshake(c) \/ ConnLine(c) \/ ConnReader(c) \/ ConnJoin(c))) =>
              /\ conn'[d] = conn[d]
              /\ NextLine(d)' = NextLine(d)]_vars

\* A step is a transport error of connection c: its handle_conn returns Err
\* or its reader task fails.
TransportError(c) ==
    \/ conn[c].st # "failed" /\ conn'[c].st = "failed"
    \/ conn[c].rx # "failed" /\ conn'[c].rx = "failed"

\* C14: after a failed accept the listener still accepts and every
\* connection is as before; a transport error of one connection leaves the
\* listener and every other connection as before.
C14_TransportErrorIsLocal ==
    [][/\ AcceptFails => (listening' = "accepting" /\ conn' = conn)
       /\ \A c \in Conns :
              TransportError(c) =>
                  /\ listening' = listening
                  /\ \A d \in Conns \ {c} : conn'[d] = conn[d]]_vars

\* C23: when the stdin loop of e has ended with the error of a failed frame
\* write and chat_loop has returned it, the session of e is over as a whole:
\* the reader task of e delivers no further plaintext.
C23_SenderErrorEndsSession ==
    [][\A e \in Ends :
          (kind[e] = "prog" /\ pc[e] = "returned" /\ senderEnd[e] = "error") =>
              delivered'[e] = delivered[e]]_vars

\* the line without its trailing whitespace: its longest prefix that is empty
\* or ends in a character that is not whitespace
Trimmed(line) ==
    LET keep == {i \in 0..Len(line) : i = 0 \/ ~IsWhitespace(line[i])}
    IN  Take(line, CHOOSE k \in keep : \A j \in keep : j <= k)

\* the bytes a step of e adds to the end of its direction of the stream
Appended(e) == Drop(wire'[e], Len(wire[e]))

\* the step writes nothing in e's direction
WroteNothing(e) == wire'[e] = wire[e]

\* the step adds exactly one frame in e's direction: a Chat message whose
\* payload decrypts to text under the Session of e and the nonce it carries
WroteChatOf(e, text) ==
    /\ Len(wire'[e]) > Len(wire[e])
    /\ Take(wire'[e], Len(wire[e])) = wire[e]
    /\ \E f \in {ReadFrame[Appended(e), TRUE, FALSE]} :
           /\ f.res = "Data"
           /\ f.used = Len(Appended(e))
           /\ \E m \in {Deserialize[f.payload]} :
                  /\ m.ok
                  /\ m.val.tag = "Chat"
                  /\ \E d \in {B64Decode[m.val.payload]}, nn \in {B64Decode[m.val.nonce]} :
                         /\ d.ok /\ nn.ok
                         /\ Len(nn.val) = NonceLen
                         /\ \E pt \in {SessionDecrypt[session[e], d.val, nn.val]} :
                                pt.ok /\ pt.val = text

\* the stdin loop of e ends and chat_loop goes on to wait for the reader task
SenderStops(e) == pc'[e] = "join" /\ result'[e] = result[e]

\* the stdin loop of e goes on to its next turn
SenderContinues(e) == pc'[e] = "sender"

\* the stdin loop of e ends with the error of the write
SenderFails(e) == pc'[e] = "returned" /\ result'[e] = "Err" /\ senderEnd'[e] = "error"

RECURSIVE TagsOf(_)
TagsOf(buf) ==
    IF buf = << >> THEN << >>
    ELSE LET f == ReadFrame[buf, TRUE, FALSE]
             m == Deserialize[f.payload]
         IN  IF f.res # "Data" \/ ~m.ok THEN << "partial" >>
             ELSE << m.val.tag >> \o TagsOf(Drop(buf, f.used))

\* e has written its own Handshake and has read the Handshake of its peer
HandshakeDone(e) == "write" \in Range(hsTrace[e]) /\ "Handshake" \in Range(hsTrace[e])

====
